---- MODULE Spec2Model ----
(***************************************************************************)
(* pg_named_args: the query_args! macro.                                   *)
(*                                                                         *)
(* rewrite_query scans a template for '$name', '${name}', '$[a, b]' and    *)
(* '$[..]' markers and rewrites it to positional '$1', '$2', ... markers;  *)
(* query_args then resolves the names against the 'Args' and 'Sql' struct  *)
(* expressions it was given.                                               *)
(*                                                                         *)
(* A string is a sequence of one-character strings.  All characters of the *)
(* model are ASCII, so Rust's byte offsets are character offsets.          *)
(***************************************************************************)
EXTENDS Integers, Sequences, FiniteSets, TLC

(***************************************************************************)
(* Bounds of the model.                                                    *)
(***************************************************************************)
\* A template is the concatenation of at most MaxPieces pieces of Vocabulary.
MaxPieces == 3
\* A template handed to the whole macro: at most MaxArgPieces pieces of ArgVocabulary.
MaxArgPieces == 2
\* The macro call declares at most MaxRecords structs of StructVocabulary.
MaxRecords == 2

(***************************************************************************)
(* Option<T>: None is the empty sequence, Some(x) the one-element one.     *)
(***************************************************************************)
None == <<>>
Some(x) == <<x>>

(***************************************************************************)
(* Characters.                                                             *)
(***************************************************************************)
Letters == {"a", "b", "c", "r"}
Digits == {"0", "1", "2", "3", "4", "5", "6", "7", "8", "9"}
\* char::is_alphanumeric, on the characters of the model
is_alphanumeric(x) == x \in Letters \cup Digits
\* char::is_ascii_whitespace
is_ascii_whitespace(x) == x \in {" ", "\t", "\n", "\r", "\f"}
\* fn ident_char
ident_char(x) == is_alphanumeric(x) \/ x = "_"
\* the closure given to find for the column list
column_char(x) == ident_char(x) \/ is_ascii_whitespace(x) \/ x = "," \/ x = "."

(***************************************************************************)
(* str operations.  Offsets are 0-based as in Rust; find returns -1 for    *)
(* Option::None.                                                           *)
(***************************************************************************)
Min(S) == CHOOSE m \in S : \A n \in S : m <= n

\* str::find(char): offset of the first occurrence of c
find_char(s, c) ==
    LET I == {i \in 1..Len(s) : s[i] = c}
    IN IF I = {} THEN -1 ELSE Min(I) - 1

\* str::find(|x| !ident_char(x)).unwrap_or(len)
ident_end(s) ==
    LET I == {i \in 1..Len(s) : ~ident_char(s[i])}
    IN IF I = {} THEN Len(s) ELSE Min(I) - 1

\* str::find(|x| !column_char(x)).unwrap_or(len)
columns_end(s) ==
    LET I == {i \in 1..Len(s) : ~column_char(s[i])}
    IN IF I = {} THEN Len(s) ELSE Min(I) - 1

\* &s[..n]
slice_to(s, n) == SubSeq(s, 1, n)
\* &s[n..]
slice_from(s, n) == SubSeq(s, n + 1, Len(s))
\* s.get(..n)
get_to(s, n) == IF n <= Len(s) THEN Some(SubSeq(s, 1, n)) ELSE None

\* str::replace("{", "{{") alone: the closing brace is left as it is
RECURSIVE escape_braces_open_only(_)
escape_braces_open_only(s) ==
    IF s = <<>> THEN <<>>
    ELSE (IF Head(s) = "{" THEN <<"{", "{">> ELSE <<Head(s)>>)
            \o escape_braces_open_only(Tail(s))

\* str::replace("{", "{{").replace("}", "}}")
RECURSIVE escape_braces(_)
escape_braces(s) ==
    IF s = <<>> THEN <<>>
    ELSE LET c == Head(s)
         IN (IF c = "{" THEN <<"{", "{">>
             ELSE IF c = "}" THEN <<"}", "}">>
             ELSE <<c>>) \o escape_braces(Tail(s))

\* str::split(','): at least one piece, one more than the number of commas
RECURSIVE split_comma(_)
split_comma(s) ==
    LET p == find_char(s, ",")
    IN IF p = -1 THEN <<s>>
       ELSE <<slice_to(s, p)>> \o split_comma(slice_from(s, p + 1))

\* str::trim: the columns text holds no whitespace other than ASCII whitespace
RECURSIVE trim_start(_)
trim_start(s) ==
    IF s # <<>> /\ is_ascii_whitespace(Head(s)) THEN trim_start(Tail(s)) ELSE s

RECURSIVE trim_end(_)
trim_end(s) ==
    IF s # <<>> /\ is_ascii_whitespace(s[Len(s)])
    THEN trim_end(SubSeq(s, 1, Len(s) - 1))
    ELSE s

trim(s) == trim_end(trim_start(s))

\* join with a bare comma as the separator
RECURSIVE join_bare_comma(_)
join_bare_comma(out) ==
    IF out = <<>> THEN <<>>
    ELSE IF Len(out) = 1 THEN out[1]
    ELSE out[1] \o <<",">> \o join_bare_comma(Tail(out))

\* [String]::join(", ")
RECURSIVE join(_)
join(out) ==
    IF out = <<>> THEN <<>>
    ELSE IF Len(out) = 1 THEN out[1]
    ELSE out[1] \o <<",", " ">> \o join(Tail(out))

\* Display of an unsigned integer: its decimal digits
DigitOf(d) == CASE d = 0 -> "0" [] d = 1 -> "1" [] d = 2 -> "2" [] d = 3 -> "3"
                [] d = 4 -> "4" [] d = 5 -> "5" [] d = 6 -> "6" [] d = 7 -> "7"
                [] d = 8 -> "8" [] d = 9 -> "9"

RECURSIVE to_string(_)
to_string(n) ==
    IF n < 10 THEN <<DigitOf(n)>>
    ELSE to_string(n \div 10) \o <<DigitOf(n % 10)>>

\* format!("${}", idx + 1)
positional(idx) == <<"$">> \o to_string(idx + 1)

(***************************************************************************)
(* Diagnostics of rewrite_query.  The messages are the source's, with its  *)
(* backquotes written as single quotes.                                    *)
(***************************************************************************)
ErrFragmentIdent == "expected an identifer after '{'"
ErrIdentOrBracket == "expected identifier or '[' after '$'"
ErrClosing == "expected closing ']'"
ErrGroupUndefined == "parameter group is used, but not defined"
ErrEmptyEntry == "expected identifier between all of '$[', every ',' and final ']'"
ErrPreviousUnused == "previous parameter group is not used"
ErrFragmentEnd == "fragment should end with '}'"
ErrLastUnused == "last parameter group is not used"

(***************************************************************************)
(* rewrite_query.  Its locals and out-parameters are the fields of a scan  *)
(* state st:                                                               *)
(*   inp        the unscanned suffix of the escaped template               *)
(*   template   the output built so far                                    *)
(*   batch      Option<String>: the pending group's positional list        *)
(*   names      the distinct parameter names                               *)
(*   fragments  the fragment names, one per occurrence                     *)
(*   errors     the diagnostics pushed so far                              *)
(*   markers    history: one entry [name, text] per positional marker the  *)
(*              scanner formatted, with the name it was formatted for      *)
(*   pc         "scan" in the loop, "abort" after an early return,         *)
(*              "done" after the return at the end of the function         *)
(***************************************************************************)
push_err(st, message) == [st EXCEPT !.errors = Append(@, message)]

\* an early return that does not return: the loop goes on
early_return_goes_on(st) == st

\* the early returns: return LitStr::new(&template, span)
early_return(st) == [st EXCEPT !.pc = "abort"]

\* names.iter().position(|x| x == ident), 0-based, -1 for None
position(names, ident) ==
    LET I == {i \in 1..Len(names) : names[i] = ident}
    IN IF I = {} THEN -1 ELSE Min(I) - 1

\* get_idx without its lookup: every occurrence is pushed
get_idx_always_push(names, ident) ==
    [idx |-> Len(Append(names, ident)) - 1, names |-> Append(names, ident)]

\* the closure get_idx: the index of ident in names, pushed when it is new
get_idx(names, ident) ==
    LET idx == position(names, ident)
    IN IF idx # -1
       THEN [idx |-> idx, names |-> names]
       ELSE [idx |-> Len(Append(names, ident)) - 1, names |-> Append(names, ident)]

\* a plain parameter reference that leaves its marker in the input
plain_param_leaves_marker(st, ident) ==
    LET g == get_idx(st.names, ident)
        text == positional(g.idx)
    IN [st EXCEPT !.names = g.names,
                  !.template = @ \o text,
                  !.markers = Append(@, [name |-> ident, text |-> text]),
                  !.inp = <<"$">> \o ident \o @]

\* '$name': a plain parameter reference
plain_param(st, ident) ==
    LET g == get_idx(st.names, ident)
        text == positional(g.idx)
    IN [st EXCEPT !.names = g.names,
                  !.template = @ \o text,
                  !.markers = Append(@, [name |-> ident, text |-> text])]

\* a fragment marker that pushes a fragment name only when it is new
fragment_marker_dedup(st, ident) ==
    LET closed == get_to(st.inp, 2) = Some(<<"}", "}">>)
        s1 == IF closed
              THEN [st EXCEPT !.inp = slice_from(@, 2)]
              ELSE [st EXCEPT !.errors = Append(@, ErrFragmentEnd)]
        seen == \E i \in 1..Len(st.fragments) : st.fragments[i] = ident
    IN [s1 EXCEPT !.fragments = IF seen THEN @ ELSE Append(@, ident),
                  !.template = @ \o <<"{", "}">>]

\* '${name}': a fragment marker
fragment_marker(st, ident) ==
    LET closed == get_to(st.inp, 2) = Some(<<"}", "}">>)
        s1 == IF closed
              THEN [st EXCEPT !.inp = slice_from(@, 2)]
              ELSE push_err(st, ErrFragmentEnd)
    IN [s1 EXCEPT !.fragments = Append(@, ident),
                  !.template = @ \o <<"{", "}">>]

\* the back-reference with batch.clone() in place of batch.take()
back_reference_keeps_group(st) ==
    IF st.batch = None
    THEN [st EXCEPT !.errors = Append(@, ErrGroupUndefined)]
    ELSE [st EXCEPT !.template = @ \o st.batch[1]]

\* '$[..]': the back-reference to the pending group
back_reference(st) ==
    IF st.batch = None
    THEN push_err(st, ErrGroupUndefined)
    ELSE [st EXCEPT !.template = @ \o st.batch[1], !.batch = None]

\* the loop over the columns without its test for an empty entry
RECURSIVE group_entries_unchecked(_, _)
group_entries_unchecked(cols, acc) ==
    IF cols = <<>> THEN acc
    ELSE LET ident == trim(Head(cols))
             idx == IF \E i \in 1..Len(acc.names) : acc.names[i] = ident
                    THEN Min({i \in 1..Len(acc.names) : acc.names[i] = ident}) - 1
                    ELSE Len(acc.names)
             nms == IF idx = Len(acc.names) THEN Append(acc.names, ident) ELSE acc.names
             text == <<"$">> \o to_string(idx + 1)
         IN group_entries_unchecked(Tail(cols),
                [acc EXCEPT !.names = nms,
                            !.out = Append(@, text),
                            !.markers = Append(@, [name |-> ident, text |-> text])])

\* the loop over columns.split(','); acc holds names, out, errors and markers
RECURSIVE group_entries(_, _)
group_entries(cols, acc) ==
    IF cols = <<>> THEN acc
    ELSE LET ident == trim(Head(cols))
         IN IF ident = <<>>
            THEN group_entries(Tail(cols),
                               [acc EXCEPT !.errors = Append(@, ErrEmptyEntry)])
            ELSE LET g == get_idx(acc.names, ident)
                     text == positional(g.idx)
                 IN group_entries(Tail(cols),
                        [acc EXCEPT !.names = g.names,
                                    !.out = Append(@, text),
                                    !.markers = Append(@, [name |-> ident, text |-> text])])

\* the definition of a group that keeps a pending group (get_or_insert)
define_group_keeps_first(st, columns) ==
    LET acc == group_entries(split_comma(columns),
                             [names |-> st.names, out |-> <<>>,
                              errors |-> st.errors, markers |-> st.markers])
        s1 == [st EXCEPT !.names = acc.names, !.errors = acc.errors,
                         !.markers = acc.markers,
                         !.batch = IF st.batch # None THEN st.batch
                                   ELSE Some(join(acc.out))]
        s2 == IF st.batch # None
              THEN [s1 EXCEPT !.errors = Append(@, ErrPreviousUnused)]
              ELSE s1
    IN [s2 EXCEPT !.template = @ \o columns]

\* '$[a, b]': the definition of a group
define_group(st, columns) ==
    LET acc == group_entries(split_comma(columns),
                             [names |-> st.names, out |-> <<>>,
                              errors |-> st.errors, markers |-> st.markers])
        s1 == [st EXCEPT !.names = acc.names, !.errors = acc.errors,
                         !.markers = acc.markers,
                         !.batch = Some(join(acc.out))]
        s2 == IF st.batch # None THEN push_err(s1, ErrPreviousUnused) ELSE s1
    IN [s2 EXCEPT !.template = @ \o columns]

\* after '$[': the column list up to its ']'
column_list(st) ==
    LET until == columns_end(st.inp)
        columns == slice_to(st.inp, until)
        s1 == [st EXCEPT !.inp = slice_from(@, until)]
    IN IF get_to(s1.inp, 1) # Some(<<"]">>)
       THEN early_return(push_err(s1, ErrClosing))
       ELSE LET s2 == [s1 EXCEPT !.inp = slice_from(@, 1)]
            IN IF columns = <<".", ".">>
               THEN back_reference(s2)
               ELSE define_group(s2, columns)

\* one iteration of the loop that finds a '$'
iteration(st) ==
    LET dollar_pos == find_char(st.inp, "$")
        s1 == [st EXCEPT !.template = @ \o slice_to(st.inp, dollar_pos),
                         !.inp = slice_from(@, dollar_pos + 1)]
        is_fragment == get_to(s1.inp, 2) = Some(<<"{", "{">>)
        s2 == IF is_fragment THEN [s1 EXCEPT !.inp = slice_from(@, 2)] ELSE s1
        ident_len == ident_end(s2.inp)
        ident == slice_to(s2.inp, ident_len)
        s3 == [s2 EXCEPT !.inp = slice_from(@, ident_len)]
    IN IF ident = <<>>
       THEN IF is_fragment
            THEN early_return(push_err(s3, ErrFragmentIdent))
            ELSE IF get_to(s3.inp, 1) # Some(<<"[">>)
                 THEN early_return(push_err(s3, ErrIdentOrBracket))
                 ELSE column_list([s3 EXCEPT !.inp = slice_from(@, 1)])
       ELSE IF is_fragment
            THEN fragment_marker(s3, ident)
            ELSE plain_param(s3, ident)

\* the end of the scan without the test of batch after the loop
finish_unchecked(st) ==
    [st EXCEPT !.template = @ \o st.inp, !.inp = <<>>, !.pc = "done"]

\* the iteration that finds no '$', and the code after the loop
finish(st) ==
    LET s1 == [st EXCEPT !.template = @ \o st.inp, !.inp = <<>>]
        s2 == IF s1.batch # None THEN push_err(s1, ErrLastUnused) ELSE s1
    IN [s2 EXCEPT !.pc = "done"]

\* the state rewrite_query starts its loop in
scan_start(text) ==
    [inp |-> escape_braces(text), template |-> <<>>, batch |-> None,
     names |-> <<>>, fragments |-> <<>>, errors |-> <<>>, markers |-> <<>>,
     pc |-> "scan"]

\* rewrite_query as a function: the state it returns in
RECURSIVE scan_loop(_)
scan_loop(st) ==
    IF st.pc # "scan" THEN st
    ELSE IF find_char(st.inp, "$") = -1 THEN finish(st)
    ELSE scan_loop(iteration(st))

rewrite_query(text) == scan_loop(scan_start(text))

(***************************************************************************)
(* The inputs.  A template is a concatenation of pieces; the pieces are    *)
(* chosen so that every branch of the scanner is taken and so that pieces  *)
(* join into other markers ('$' and 'c', '$[a' and ']', '${a' and '}', a    *)
(* marker '$[..]' and the digit after it).                                 *)
(***************************************************************************)
Vocabulary ==
    { <<"$", "a">>,
      <<"$", "b">>,
      <<"$", "[", "a", ",", " ", "b", "]">>,
      <<"$", "[", "b", "]">>,
      <<"$", "[", ".", ".", "]">>,
      <<"$", "[", "a", ",", "]">>,
      <<"$", "[", "a", ".", "b", "]">>,
      <<"$", "[", "a">>,
      <<"$", "{", "a", "}">>,
      <<"$", "{", "a">>,
      <<"$">>,
      <<"{">>,
      <<"}">>,
      <<"]">>,
      <<"c">>,
      <<"1">>,
      <<" ">> }

ArgVocabulary ==
    { <<"$", "a">>,
      <<"$", "b">>,
      <<"$", "{", "a", "}">>,
      <<"$", "{", "b", "}">>,
      <<"{">> }

RECURSIVE concat(_)
concat(ps) == IF ps = <<>> THEN <<>> ELSE Head(ps) \o concat(Tail(ps))

Templates == {concat(ps) : ps \in UNION {[1..n -> Vocabulary] : n \in 0..MaxPieces}}

ArgTemplates == {concat(ps) : ps \in UNION {[1..n -> ArgVocabulary] : n \in 0..MaxArgPieces}}

(***************************************************************************)
(* The struct expressions of a macro call.  A field is its member and its  *)
(* expression; an expression is opaque and is identified by its position   *)
(* in the struct expression.  A member is named (an identifier, possibly   *)
(* raw, r#name) or unnamed (a tuple index).  A RawStruct has a name;       *)
(* parses says whether its tokens parse as an ExprStruct, dot2 whether it  *)
(* ends with the struct update syntax '..base'.                            *)
(***************************************************************************)
named(ident) == [named |-> TRUE, ident |-> ident]
unnamed(index) == [named |-> FALSE, ident |-> index]

fields_of(members) == [k \in 1..Len(members) |-> [member |-> members[k], expr |-> k]]

struct(name, members) ==
    [name |-> name, parses |-> TRUE, dot2 |-> FALSE, fields |-> fields_of(members)]

struct_update(name, members) ==
    [name |-> name, parses |-> TRUE, dot2 |-> TRUE, fields |-> fields_of(members)]

unparsed(name) == [name |-> name, parses |-> FALSE, dot2 |-> FALSE, fields |-> <<>>]

StructVocabulary ==
    { struct("Args", <<named(<<"a">>), named(<<"b">>)>>),
      struct("Args", <<named(<<"b">>), named(<<"a">>)>>),
      struct("Args", <<named(<<"a">>)>>),
      struct("Args", <<unnamed(<<"0">>), named(<<"b">>), named(<<"r", "#", "a">>)>>),
      struct_update("Args", <<named(<<"b">>)>>),
      unparsed("Args"),
      struct("Sql", <<named(<<"a">>), named(<<"b">>)>>),
      struct("Sql", <<named(<<"b">>)>>),
      struct_update("Sql", <<>>),
      struct("Cfg", <<named(<<"a">>)>>),
      struct("Opt", <<>>) }

(***************************************************************************)
(* Diagnostics of query_args.                                              *)
(***************************************************************************)
ErrStructUpdate == "struct update syntax is not supported by the query_args macro"
ErrDuplicate == "duplicate struct name"
ErrExpectedArgs == "expected 'Args' struct"
ErrExpectedSql == "expected 'Sql' struct"
\* format!("unknown struct name '{key}'"), over the struct names of the model
ErrUnknown(key) ==
    CASE key = "Args" -> "unknown struct name 'Args'"
      [] key = "Sql" -> "unknown struct name 'Sql'"
      [] key = "Cfg" -> "unknown struct name 'Cfg'"
      [] key = "Opt" -> "unknown struct name 'Opt'"

(***************************************************************************)
(* The state.                                                              *)
(***************************************************************************)
VARIABLES
    src,            \* the template literal given to the macro
    inp, template, batch, names, fragments, errors, markers, pc,
                    \* the scan state of rewrite_query (see above)
    qpc,            \* the position of query_args
    nrecs,          \* the number of structs of the call taken so far
    raw_struct,     \* the struct the for_each closure was last given (x)
    args,           \* HashMap<String, Vec<FieldValue>>: a function on its keys
    params,         \* the argument sequence
    fragment_args,  \* the resolved fragment values
    output          \* the template expression of the expansion

scan_vars == <<inp, template, batch, names, fragments, errors, markers, pc>>
query_vars == <<qpc, nrecs, raw_struct, args, params, fragment_args, output>>
vars == <<src, inp, template, batch, names, fragments, errors, markers, pc,
          qpc, nrecs, raw_struct, args, params, fragment_args, output>>

\* the scan state as a record
cur ==
    [inp |-> inp, template |-> template, batch |-> batch, names |-> names,
     fragments |-> fragments, errors |-> errors, markers |-> markers, pc |-> pc]

become(st) ==
    /\ inp' = st.inp
    /\ template' = st.template
    /\ batch' = st.batch
    /\ names' = st.names
    /\ fragments' = st.fragments
    /\ errors' = st.errors
    /\ markers' = st.markers
    /\ pc' = st.pc

\* query_args up to its call of rewrite_query, and rewrite_query up to its loop
start(text) ==
    /\ src = text
    /\ inp = scan_start(text).inp
    /\ template = scan_start(text).template
    /\ batch = scan_start(text).batch
    /\ names = scan_start(text).names
    /\ fragments = scan_start(text).fragments
    /\ errors = scan_start(text).errors
    /\ markers = scan_start(text).markers
    /\ pc = scan_start(text).pc
    /\ qpc = "rewrite"
    /\ nrecs = 0
    /\ raw_struct = None
    /\ args = <<>>
    /\ params = <<>>
    /\ fragment_args = <<>>
    /\ output = [format |-> FALSE, template |-> <<>>, args |-> <<>>]

Init == \E text \in Templates : start(text)

InitArgs == \E text \in ArgTemplates : start(text)

(***************************************************************************)
(* rewrite_query: the steps of its loop.                                   *)
(***************************************************************************)
ScanMarker ==
    /\ pc = "scan"
    /\ find_char(inp, "$") # -1
    /\ become(iteration(cur))
    /\ UNCHANGED <<src, qpc, nrecs, raw_struct, args, params, fragment_args, output>>

ScanFinish ==
    /\ pc = "scan"
    /\ find_char(inp, "$") = -1
    /\ become(finish(cur))
    /\ UNCHANGED <<src, qpc, nrecs, raw_struct, args, params, fragment_args, output>>

(***************************************************************************)
(* query_args after rewrite_query has returned.                            *)
(***************************************************************************)
\* Ident::unraw
unraw(ident) ==
    IF Len(ident) >= 2 /\ SubSeq(ident, 1, 2) = <<"r", "#">>
    THEN slice_from(ident, 2)
    ELSE ident

\* fields.iter().find_map(..): the expression of the first named field whose
\* unraw name is search
find_field(fields, search) ==
    LET I == {i \in 1..Len(fields) :
                 fields[i].member.named /\ unraw(fields[i].member.ident) = search}
    IN IF I = {} THEN None ELSE Some(fields[Min(I)].expr)

\* the expressions of the matching fields in the order of the struct expression
RECURSIVE filter_map_struct_order(_, _)
filter_map_struct_order(searches, fields) ==
    IF fields = <<>> THEN <<>>
    ELSE LET f == Head(fields)
             hit == f.member.named
                    /\ \E i \in 1..Len(searches) : searches[i] = unraw(f.member.ident)
         IN (IF hit THEN <<f.expr>> ELSE <<>>)
            \o filter_map_struct_order(searches, Tail(fields))

\* searches.iter().filter_map(|search| find_field(fields, search))
RECURSIVE filter_map_fields(_, _)
filter_map_fields(searches, fields) ==
    IF searches = <<>> THEN <<>>
    ELSE LET found == find_field(fields, Head(searches))
         IN (IF found = None THEN <<>> ELSE <<found[1]>>)
            \o filter_map_fields(Tail(searches), fields)

\* quote!(&#res as &(dyn ::postgres_types::ToSql + Sync))
as_to_sql(res) == [expr |-> res, wrap |-> "& as &(dyn ToSql + Sync)"]

\* quote_spanned!(::pg_named_args::Fragment::get(#res))
fragment_get(res) == [expr |-> res, wrap |-> "Fragment::get"]

\* HashMap::insert
insert(map, key, value) ==
    [k \in DOMAIN map \cup {key} |-> IF k = key THEN value ELSE map[k]]

\* HashMap::get in place of remove: the key stays in the map
remove_keeps_key(map, key) == map

\* HashMap::remove: what is left
remove(map, key) == [k \in DOMAIN map \ {key} |-> map[k]]

\* the template expression with the format! applied whatever was resolved
format_always(tmpl, resolved, frags) ==
    [format |-> TRUE, template |-> tmpl, args |-> resolved]

\* the template expression: the literal, inside format! with the resolved
\* fragments when there is one for each fragment occurrence
format_template(tmpl, resolved, frags) ==
    IF Len(resolved) = Len(frags)
    THEN [format |-> TRUE, template |-> tmpl, args |-> resolved]
    ELSE [format |-> FALSE, template |-> tmpl, args |-> <<>>]

\* the fields of one struct (144-156): none when it does not parse, and the
\* diagnostic of the struct update syntax when it parses with a '..'
parse_fields_needs_field(errs, x) ==
    [fields |-> IF x.parses THEN x.fields ELSE <<>>,
     errors |-> IF x.parses /\ x.dot2 /\ x.fields # <<>>
                THEN Append(errs, ErrStructUpdate)
                ELSE errs]

parse_fields(errs, x) ==
    [fields |-> IF x.parses THEN x.fields ELSE <<>>,
     errors |-> IF x.parses /\ x.dot2
                THEN Append(errs, ErrStructUpdate)
                ELSE errs]

\* the else branch of a struct that is not in args (187-192, 211-216): the
\* diagnostic only when the template looks for something
expected_struct_always(errs, searched, message) ==
    Append(errs, message)

expected_struct(errs, searched, message) ==
    IF searched # <<>> THEN Append(errs, message) ELSE errs

\* rewrite_query returns to query_args
Returned ==
    /\ qpc = "rewrite"
    /\ pc # "scan"
    /\ qpc' = "structs"
    /\ args' = [k \in {} |-> <<>>]
    /\ UNCHANGED <<src, scan_vars, nrecs, raw_struct, params, fragment_args, output>>

\* one struct of the call: the body of the for_each
ParseStruct ==
    /\ qpc = "structs"
    /\ nrecs < MaxRecords
    /\ \E x \in StructVocabulary :
        LET parsed == parse_fields(errors, x)
        IN /\ raw_struct' = Some(x)
           /\ args' = insert(args, x.name, parsed.fields)
           /\ errors' = IF x.name \in DOMAIN args
                        THEN Append(parsed.errors, ErrDuplicate)
                        ELSE parsed.errors
    /\ nrecs' = nrecs + 1
    /\ UNCHANGED <<src, inp, template, batch, names, fragments, markers, pc,
                   qpc, params, fragment_args, output>>

\* the structs are exhausted: params from the 'Args' struct
ResolveParams ==
    /\ qpc = "structs"
    /\ IF "Args" \in DOMAIN args
       THEN /\ params' = [i \in 1..Len(filter_map_fields(names, args["Args"])) |->
                             as_to_sql(filter_map_fields(names, args["Args"])[i])]
            /\ errors' = errors
       ELSE /\ params' = <<>>
            /\ errors' = expected_struct(errors, names, ErrExpectedArgs)
    /\ args' = remove(args, "Args")
    /\ raw_struct' = None
    /\ qpc' = "fragments"
    /\ UNCHANGED <<src, inp, template, batch, names, fragments, markers, pc,
                   nrecs, fragment_args, output>>

\* fragment_args from the 'Sql' struct, and the format! over the template
ResolveFragments ==
    /\ qpc = "fragments"
    /\ LET resolved ==
              IF "Sql" \in DOMAIN args
              THEN [i \in 1..Len(filter_map_fields(fragments, args["Sql"])) |->
                       fragment_get(filter_map_fields(fragments, args["Sql"])[i])]
              ELSE <<>>
       IN /\ fragment_args' = resolved
          /\ errors' = IF "Sql" \in DOMAIN args
                       THEN errors
                       ELSE expected_struct(errors, fragments, ErrExpectedSql)
          /\ output' = format_template(template, resolved, fragments)
    /\ args' = remove(args, "Sql")
    /\ qpc' = "unknown"
    /\ UNCHANGED <<src, inp, template, batch, names, fragments, markers, pc,
                   nrecs, raw_struct, params>>

\* the keys left in args, in the order the HashMap iterates them (any order)
ReportUnknown ==
    /\ qpc = "unknown"
    /\ \E order \in [1..Cardinality(DOMAIN args) -> DOMAIN args] :
        /\ \A i, j \in DOMAIN order : i # j => order[i] # order[j]
        /\ errors' = errors \o [i \in DOMAIN order |-> ErrUnknown(order[i])]
    /\ qpc' = "exit"
    /\ UNCHANGED <<src, inp, template, batch, names, fragments, markers, pc,
                   nrecs, raw_struct, args, params, fragment_args, output>>

Next == ScanMarker \/ ScanFinish

Spec == Init /\ [][Next]_vars

\* rewrite_query is sequential code: its loop takes its next step.  This is
\* weak fairness of Next, WF_vars(Next), written out: a step of Next is
\* possible exactly when pc = "scan", and it changes pc or shortens inp.
SpecFair ==
    Init /\ [][Next]_vars /\ ([]<>(pc # "scan") \/ []<><<Next>>_vars)

NextArgs ==
    \/ ScanMarker
    \/ ScanFinish
    \/ Returned
    \/ ParseStruct
    \/ ResolveParams
    \/ ResolveFragments
    \/ ReportUnknown

SpecArgs == InitArgs /\ [][NextArgs]_vars

(***************************************************************************)
(* Properties.                                                             *)
(***************************************************************************)
NoDuplicates(seq) == \A i, j \in 1..Len(seq) : seq[i] = seq[j] => i = j

\* the elements of seq in the order of their first occurrence
RECURSIVE FirstOccurrences(_)
FirstOccurrences(seq) ==
    IF seq = <<>> THEN <<>>
    ELSE LET rest == FirstOccurrences(SubSeq(seq, 1, Len(seq) - 1))
             last == seq[Len(seq)]
         IN IF \E i \in 1..Len(rest) : rest[i] = last THEN rest ELSE Append(rest, last)

MarkerNames == [k \in 1..Len(markers) |-> markers[k].name]

\* C1: at every point of the scan, names holds each distinct parameter name
\* once, in the order of first occurrence (plain '$name' and group entries
\* alike), and every positional marker formatted for a name is '$i' with
\* i = 1 + the position of the name in names, at each of its occurrences.
C1_NamesInFirstOccurrenceOrder ==
    /\ NoDuplicates(names)
    /\ names = FirstOccurrences(MarkerNames)
    /\ \A k \in 1..Len(markers) :
          \E i \in 1..Len(names) :
             /\ names[i] = markers[k].name
             /\ markers[k].text = <<"$">> \o to_string(i)

\* a finished scan of a template such as '$b$[a, b]$[..]': a name is referred
\* to twice, once plainly and once as a group entry, among two names
C1_Witness ==
    /\ pc = "done"
    /\ errors = <<>>
    /\ Len(names) = 2
    /\ Len(markers) = 3
    /\ markers[1].name = markers[3].name
    /\ markers[1].text = markers[3].text
    /\ \E i \in 1..Len(src) - 1 : src[i] = "$" /\ src[i + 1] = "["

\* the named fields of a struct expression whose name is n
FieldsNamed(fields, n) ==
    {k \in 1..Len(fields) : fields[k].member.named /\ unraw(fields[k].member.ident) = n}

\* the step of query_args that builds params from a declared 'Args' struct
ParamsStep == qpc = "structs" /\ qpc' = "fragments" /\ "Args" \in DOMAIN args

\* params has one entry per name, and entry i is the expression of a field
\* named names[i]
ParamsAligned ==
    /\ Len(params') = Len(names)
    /\ \A i \in 1..Len(names) :
          \E k \in FieldsNamed(args["Args"], names[i]) :
             params'[i] = as_to_sql(args["Args"][k].expr)

\* C2 as claimed: for every 'Args' struct given, params has len(names) entries
\* and entry i-1 is the expression of the field named names[i-1].
C2_Original == [][ParamsStep => ParamsAligned]_vars

\* C2: for every 'Args' struct that has a named field for each name of names,
\* params has len(names) entries and entry i-1 is the expression of the field
\* named names[i-1], whatever the order of the fields in the struct.
C2_ParamsFollowNames ==
    [][(ParamsStep /\ \A i \in 1..Len(names) : FieldsNamed(args["Args"], names[i]) # {})
          => ParamsAligned]_vars

\* params was built for two names from a struct that lists them in the other order
C2_Witness ==
    /\ qpc = "fragments"
    /\ Len(names) = 2
    /\ Len(params) = 2
    /\ params[1].expr = 2
    /\ params[2].expr = 1

\* '$n1, ..., $nk' for the entries of a column list, written by hand
RECURSIVE ManualList(_)
ManualList(entries) ==
    IF entries = <<>> THEN <<>>
    ELSE <<"$">> \o trim(Head(entries))
         \o (IF Len(entries) > 1 THEN <<",", " ">> ELSE <<>>)
         \o ManualList(Tail(entries))

\* The text in which every group definition '$[n1, ..., nk]' is replaced by its
\* raw column text and the '$[..]' that follows it by '$n1, ..., $nk'; group is
\* the column text of the definition a '$[..]' would refer to.  pairs counts
\* the '$[..]' replaced.
RECURSIVE Expand(_, _)
Expand(s, group) ==
    LET p == find_char(s, "$")
        before == slice_to(s, p)
        rest == slice_from(s, p + 1)
        body == slice_from(rest, 1)
        until == columns_end(body)
        columns == slice_to(body, until)
        after == slice_from(body, until + 1)
        keep == Expand(rest, group)
    IN IF p = -1 THEN [text |-> s, pairs |-> 0]
       ELSE IF get_to(rest, 1) = Some(<<"[">>)
               /\ get_to(slice_from(body, until), 1) = Some(<<"]">>)
            THEN IF columns # <<".", ".">>
                 THEN LET e == Expand(after, Some(columns))
                      IN [text |-> before \o columns \o e.text, pairs |-> e.pairs]
                 ELSE IF group # None
                 THEN LET e == Expand(after, None)
                      IN [text |-> before \o ManualList(split_comma(group[1])) \o e.text,
                          pairs |-> e.pairs + 1]
                 ELSE LET e == Expand(after, None)
                      IN [text |-> before \o <<"$", "[", ".", ".", "]">> \o e.text,
                          pairs |-> e.pairs]
            ELSE [text |-> before \o <<"$">> \o keep.text, pairs |-> keep.pairs]

Expanded == Expand(src, None)

\* the template scanned without diagnostics and holds a group definition that a
\* later '$[..]' refers to
PairedGroup == pc = "done" /\ errors = <<>> /\ Expanded.pairs >= 1

Range(seq) == {seq[i] : i \in 1..Len(seq)}

AtMarker == pc = "scan" /\ find_char(inp, "$") # -1
\* the text copied before the '$', and the text after the '$'
Prefix == slice_to(inp, find_char(inp, "$"))
AfterDollar == slice_from(inp, find_char(inp, "$") + 1)

StartsWith(s, t) == Len(s) >= Len(t) /\ SubSeq(s, 1, Len(t)) = t

\* the run of column-list characters after '$[' and the text after that run
ColumnRun == slice_to(slice_from(AfterDollar, 1), columns_end(slice_from(AfterDollar, 1)))
AfterColumnRun == slice_from(slice_from(AfterDollar, 1), Len(ColumnRun))

BracketNext == AtMarker /\ StartsWith(AfterDollar, <<"[">>)
BackReferenceNext == AtMarker /\ StartsWith(AfterDollar, <<"[", ".", ".", "]">>)
DefinitionNext ==
    /\ BracketNext
    /\ StartsWith(AfterColumnRun, <<"]">>)
    /\ ColumnRun # <<".", ".">>

Count(seq, x) == Cardinality({i \in 1..Len(seq) : seq[i] = x})

Occurrences(s, t) ==
    Cardinality({i \in 1..Len(s) : StartsWith(SubSeq(s, i, Len(s)), t)})

\* C4: a '$[..]' met while no group is pending adds "parameter group is used,
\* but not defined", emits nothing and the scan goes on; met while a group is
\* pending it emits that group's positional list and leaves no group pending.
C4_BackReference ==
    [][BackReferenceNext =>
          /\ pc' = "scan"
          /\ batch' = None
          /\ inp' = slice_from(AfterDollar, 4)
          /\ IF batch = None
             THEN /\ errors' = Append(errors, ErrGroupUndefined)
                  /\ template' = template \o Prefix
             ELSE /\ errors' = errors
                  /\ template' = template \o Prefix \o batch[1]]_vars

\* '$[b]$[..]$[..]' and the like: the first '$[..]' emitted the group, the
\* second found nothing pending
C4_Witness ==
    /\ pc = "done"
    /\ Occurrences(src, <<"$", "[", ".", ".", "]">>) = 2
    /\ StartsWith(src, <<"$", "[", "b", "]">>)
    /\ errors = <<ErrGroupUndefined>>
    /\ Len(names) = 1
    /\ Occurrences(template, <<"$", "1">>) = 1

\* the entries of a column list that are not empty after trimming
RECURSIVE Entries(_)
Entries(cols) ==
    IF cols = <<>> THEN <<>>
    ELSE (IF trim(Head(cols)) = <<>> THEN <<>> ELSE <<trim(Head(cols))>>)
         \o Entries(Tail(cols))

EmptyEntries(cols) == Cardinality({i \in 1..Len(cols) : trim(cols[i]) = <<>>})

\* '$i, $j, ...': the positions in nms of the entries, written by hand
RECURSIVE PositionalList(_, _)
PositionalList(entries, nms) ==
    IF entries = <<>> THEN <<>>
    ELSE <<"$">> \o to_string(CHOOSE i \in 1..Len(nms) : nms[i] = Head(entries))
         \o (IF Len(entries) > 1 THEN <<",", " ">> ELSE <<>>)
         \o PositionalList(Tail(entries), nms)

\* C5: a group definition met while an earlier group is pending adds "previous
\* parameter group is not used", the scan goes on, and the new group's
\* positional list is what is pending afterwards.
C5_DefinitionReplacesPending ==
    [][(DefinitionNext /\ batch # None) =>
          /\ pc' = "scan"
          /\ Len(errors') > Len(errors)
          /\ errors'[Len(errors')] = ErrPreviousUnused
          /\ Count(errors', ErrPreviousUnused) = Count(errors, ErrPreviousUnused) + 1
          /\ batch' = Some(PositionalList(Entries(split_comma(ColumnRun)), names'))
          /\ template' = template \o Prefix \o ColumnRun]_vars

\* '$[a, b]$[b]$[..]' and the like: the '$[..]' emitted the list of the second
\* group, not of the first
C5_Witness ==
    /\ pc = "done"
    /\ errors = <<ErrPreviousUnused>>
    /\ batch = None
    /\ Len(names) = 2
    /\ Occurrences(src, <<"$", "[", ".", ".", "]">>) = 1
    /\ Occurrences(template, <<"$", "2">>) = 1
    /\ Occurrences(template, <<"$", "1">>) = 0

\* C6: "last parameter group is not used" is among the diagnostics exactly when
\* the scan reached the end of the template with a group pending, and then once.
C6_LastGroupUnused ==
    Count(errors, ErrLastUnused) = IF pc = "done" /\ batch # None THEN 1 ELSE 0

\* the scan ended with a group pending, and that is its only diagnostic
C6_Witness ==
    /\ pc = "done"
    /\ batch # None
    /\ errors = <<ErrLastUnused>>
    /\ Len(names) = 2

\* the early-abort cases and their diagnostics
AbortFragment ==
    /\ AtMarker
    /\ StartsWith(AfterDollar, <<"{", "{">>)
    /\ ident_end(slice_from(AfterDollar, 2)) = 0
AbortNoBracket ==
    /\ AtMarker
    /\ ~StartsWith(AfterDollar, <<"{", "{">>)
    /\ ident_end(AfterDollar) = 0
    /\ ~StartsWith(AfterDollar, <<"[">>)
AbortNoClosing ==
    /\ BracketNext
    /\ ~StartsWith(AfterColumnRun, <<"]">>)

\* C7: in each early-abort case rewrite_query adds exactly one diagnostic and
\* returns the output built before that '$'; once it has returned so, neither
\* the diagnostics nor the template change, whether or not a group is pending.
C7_EarlyAbort ==
    [][/\ AbortFragment =>
            /\ errors' = Append(errors, ErrFragmentIdent)
            /\ template' = template \o Prefix
            /\ pc' = "abort"
       /\ AbortNoBracket =>
            /\ errors' = Append(errors, ErrIdentOrBracket)
            /\ template' = template \o Prefix
            /\ pc' = "abort"
       /\ AbortNoClosing =>
            /\ errors' = Append(errors, ErrClosing)
            /\ template' = template \o Prefix
            /\ pc' = "abort"
       /\ pc = "abort" => (errors' = errors /\ template' = template /\ pc' = "abort")]_vars

\* '$[b]$[a' and the like: an early abort with a group pending leaves the one
\* diagnostic of the abort
C7_Witness ==
    /\ pc = "abort"
    /\ batch # None
    /\ Len(errors) = 1
    /\ errors[1] \in {ErrFragmentIdent, ErrIdentOrBracket, ErrClosing}

\* n copies of x
Copies(n, x) == [i \in 1..n |-> x]

\* nms followed by the entries that are new to it, in order
RECURSIVE WithEntries(_, _)
WithEntries(nms, entries) ==
    IF entries = <<>> THEN nms
    ELSE WithEntries(IF \E i \in 1..Len(nms) : nms[i] = Head(entries)
                     THEN nms ELSE Append(nms, Head(entries)),
                     Tail(entries))

TrailingCommaExample ==
    <<"$", "[", "a", ",", "]", "$", "[", ".", ".", "]">>

\* C8: a group definition with empty entries adds one "expected identifier
\* between ..." per empty entry, indexes the other entries in order, makes
\* their positional list the pending group, and the scan goes on;
\* '$[a,]$[..]' ends with exactly that one diagnostic.
C8_EmptyEntryRecoverable ==
    [][/\ DefinitionNext =>
            /\ pc' = "scan"
            /\ errors' = errors
                  \o Copies(EmptyEntries(split_comma(ColumnRun)), ErrEmptyEntry)
                  \o (IF batch # None THEN <<ErrPreviousUnused>> ELSE <<>>)
            /\ names' = WithEntries(names, Entries(split_comma(ColumnRun)))
            /\ batch' = Some(PositionalList(Entries(split_comma(ColumnRun)), names'))
       /\ (src = TrailingCommaExample /\ pc' = "done") =>
            /\ errors' = <<ErrEmptyEntry>>
            /\ template' = <<"a", ",", "$", "1">>]_vars

\* '$[a,]$[..]' scanned to its end
C8_Witness ==
    /\ src = TrailingCommaExample
    /\ pc = "done"
    /\ errors = <<ErrEmptyEntry>>
    /\ names = <<<<"a">>>>
    /\ batch = None

FragmentNext ==
    /\ AtMarker
    /\ StartsWith(AfterDollar, <<"{", "{">>)
    /\ ident_end(slice_from(AfterDollar, 2)) > 0

\* the identifier of the fragment marker met next
FragmentIdent == slice_to(slice_from(AfterDollar, 2), ident_end(slice_from(AfterDollar, 2)))

\* the step of query_args that resolves the fragments against a declared 'Sql' struct
FragmentsStep == qpc = "fragments" /\ qpc' = "unknown"

\* C9: every '${name}' appends one entry to fragments without deduplication and
\* emits one '{}' hole, with names and the numbering untouched; with a 'Sql'
\* struct that has a field for each fragment name, the j-th resolved value is
\* the field named by the j-th occurrence.
C9_FragmentPerOccurrence ==
    [][/\ FragmentNext =>
            /\ fragments' = Append(fragments, FragmentIdent)
            /\ template' = template \o Prefix \o <<"{", "}">>
            /\ names' = names
            /\ markers' = markers
            /\ pc' = "scan"
       /\ (/\ FragmentsStep
           /\ "Sql" \in DOMAIN args
           /\ \A j \in 1..Len(fragments) : FieldsNamed(args["Sql"], fragments[j]) # {}) =>
            /\ Len(fragment_args') = Len(fragments)
            /\ \A j \in 1..Len(fragments) :
                  \E k \in FieldsNamed(args["Sql"], fragments[j]) :
                     fragment_args'[j] = fragment_get(args["Sql"][k].expr)]_vars

\* '${a}${a}' with a 'Sql' struct that has a field a: the name is listed twice
\* and resolved twice
C9_Witness ==
    /\ qpc = "unknown"
    /\ fragments = <<<<"a">>, <<"a">>>>
    /\ names = <<>>
    /\ template = <<"{", "}", "{", "}">>
    /\ fragment_args = <<fragment_get(1), fragment_get(1)>>

\* C10: the format! is applied exactly when there are as many resolved
\* fragment values as fragment occurrences (none of either included); when a
\* fragment name has no field in the 'Sql' struct, or there is no 'Sql' struct
\* while fragments are used, it is not applied and the template is the
\* rewritten template as it is.
C10_FormatOnlyWhenResolved ==
    [][FragmentsStep =>
          /\ output'.format <=> Len(fragment_args') = Len(fragments)
          /\ output'.template = template
          /\ output'.format => output'.args = fragment_args'
          /\ (\/ /\ "Sql" \in DOMAIN args
                 /\ \E j \in 1..Len(fragments) : FieldsNamed(args["Sql"], fragments[j]) = {}
              \/ /\ "Sql" \notin DOMAIN args
                 /\ fragments # <<>>)
                => output' = [format |-> FALSE, template |-> template, args |-> <<>>]
          /\ fragments = <<>> => output'.format]_vars

\* '${a}${b}' with a 'Sql' struct that lacks a: one value for two holes, and
\* the template is left as it is
C10_Witness ==
    /\ qpc = "unknown"
    /\ Len(fragments) = 2
    /\ Len(fragment_args) = 1
    /\ ~output.format
    /\ output.template = <<"{", "}", "{", "}">>

(***************************************************************************)
(* The diagnostics of query_args for the structs of the call.              *)
(***************************************************************************)
ResolveParamsStep == qpc = "structs" /\ qpc' = "fragments"

\* the diagnostic is appended by this step, and errors is otherwise unchanged
Appends(message) == errors' = Append(errors, message)

\* C11: query_args adds "expected 'Args' struct" exactly when no 'Args' struct
\* is declared and names is non-empty, and "expected 'Sql' struct" exactly when
\* no 'Sql' struct is declared and fragments is non-empty; in both cases the
\* resolved sequence of that role is empty; no other step adds either message.
C11_ExpectedStruct ==
    [][/\ ResolveParamsStep =>
            IF "Args" \notin DOMAIN args /\ names # <<>>
            THEN Appends(ErrExpectedArgs) /\ params' = <<>>
            ELSE errors' = errors
       /\ FragmentsStep =>
            IF "Sql" \notin DOMAIN args /\ fragments # <<>>
            THEN Appends(ErrExpectedSql) /\ fragment_args' = <<>>
            ELSE errors' = errors
       /\ ~ResolveParamsStep =>
            Count(errors', ErrExpectedArgs) = Count(errors, ErrExpectedArgs)
       /\ ~FragmentsStep =>
            Count(errors', ErrExpectedSql) = Count(errors, ErrExpectedSql)]_vars

\* a template with a parameter and a fragment, and a call with neither struct
C11_Witness ==
    /\ qpc = "unknown"
    /\ names # <<>>
    /\ fragments # <<>>
    /\ Count(errors, ErrExpectedArgs) = 1
    /\ Count(errors, ErrExpectedSql) = 1
    /\ params = <<>>
    /\ fragment_args = <<>>

ParseStructStep == qpc = "structs" /\ nrecs' = nrecs + 1

\* the struct a ParseStructStep has taken
Taken == raw_struct'[1]

\* C12: every struct of the call written with the struct update syntax
\* ('..base' after its fields, or with no field at all) makes query_args add
\* one "struct update syntax is not supported by the query_args macro"; a
\* struct without it adds none, and no other step adds the message.
C12_StructUpdate ==
    [][/\ ParseStructStep =>
            /\ raw_struct' # None
            /\ Count(errors', ErrStructUpdate) =
                  Count(errors, ErrStructUpdate)
                     + (IF Taken.parses /\ Taken.dot2 THEN 1 ELSE 0)
       /\ ~ParseStructStep =>
            Count(errors', ErrStructUpdate) = Count(errors, ErrStructUpdate)]_vars

\* 'Sql { ..base }', which names no field, after another struct with '..'
C12_Witness ==
    /\ qpc = "structs"
    /\ raw_struct = Some(struct_update("Sql", <<>>))
    /\ Count(errors, ErrStructUpdate) = 2

UnknownStep == qpc = "unknown" /\ qpc' = "exit"

StructNames == {x.name : x \in StructVocabulary}

\* C13: each struct of the call whose name repeats that of an earlier struct
\* adds one "duplicate struct name"; once 'Args' and 'Sql' are taken out, each
\* distinct struct name that is left adds one "unknown struct name" with that
\* name, in whatever order; a call of at most one 'Args' struct, at most one
\* 'Sql' struct and nothing else adds neither, and no other step adds them.
C13_DuplicateAndUnknown ==
    [][/\ ParseStructStep =>
            /\ raw_struct' # None
            /\ Count(errors', ErrDuplicate) =
                  Count(errors, ErrDuplicate)
                     + (IF Taken.name \in DOMAIN args THEN 1 ELSE 0)
            /\ DOMAIN args' = DOMAIN args \cup {Taken.name}
       /\ ~ParseStructStep =>
            Count(errors', ErrDuplicate) = Count(errors, ErrDuplicate)
       /\ ResolveParamsStep => DOMAIN args' = DOMAIN args \ {"Args"}
       /\ FragmentsStep => DOMAIN args' = DOMAIN args \ {"Sql"}
       /\ UnknownStep =>
            /\ \A n \in StructNames :
                  Count(errors', ErrUnknown(n)) =
                     Count(errors, ErrUnknown(n)) + (IF n \in DOMAIN args THEN 1 ELSE 0)
            /\ Len(errors') = Len(errors) + Cardinality(DOMAIN args)
            /\ SubSeq(errors', 1, Len(errors)) = errors
       /\ ~UnknownStep =>
            \A n \in StructNames :
               Count(errors', ErrUnknown(n)) = Count(errors, ErrUnknown(n))]_vars

\* 'Cfg { a }' twice: one duplicate, and 'Cfg' is unknown once
C13_Witness ==
    /\ qpc = "exit"
    /\ nrecs = 2
    /\ Count(errors, ErrDuplicate) = 1
    /\ Count(errors, ErrUnknown("Cfg")) = 1
    /\ Count(errors, ErrUnknown("Opt")) = 0

(***************************************************************************)
(* The results of a scan.                                                  *)
(***************************************************************************)
\* a non-empty string of letters, digits and '_'
IsIdentifier(s) ==
    /\ s # <<>>
    /\ \A k \in 1..Len(s) : s[k] \in Letters \cup Digits \cup {"_"}

\* C14: after any scan, completed or aborted, every entry of names is a
\* non-empty string made only of identifier characters (letters, digits and
\* '_'), for the names of plain '$name' markers and for the entries of a
\* '$[...]' group alike.
C14_NamesAreIdentifiers ==
    pc # "scan" => \A i \in 1..Len(names) : IsIdentifier(names[i])

\* a template read as a format string, from the left: '{{' and '}}' are one
\* literal brace each, '{}' is a hole, any other brace is malformed
RECURSIVE Braces(_)
Braces(s) ==
    IF s = <<>> THEN [ok |-> TRUE, holes |-> 0, literals |-> 0]
    ELSE IF Head(s) \notin {"{", "}"} THEN Braces(Tail(s))
    ELSE IF Len(s) >= 2 /\ s[2] = s[1]
         THEN LET rest == Braces(SubSeq(s, 3, Len(s)))
              IN [rest EXCEPT !.literals = @ + 1]
    ELSE IF Len(s) >= 2 /\ s[1] = "{" /\ s[2] = "}"
         THEN LET rest == Braces(SubSeq(s, 3, Len(s)))
              IN [rest EXCEPT !.holes = @ + 1]
    ELSE [ok |-> FALSE, holes |-> 0, literals |-> 0]

SourceBraces == Count(src, "{") + Count(src, "}")

\* C15: in every template a scan returns, on completion and on an early abort,
\* the braces are well formed: there are as many '{}' holes as entries of
\* fragments, and every other brace is part of a doubled '{{' or '}}' that
\* stands for one brace of the source (a fragment marker takes one or two
\* braces of the source; an abort leaves the rest of the source out).
C15_BracesWellFormed ==
    pc # "scan" =>
        /\ Braces(template).ok
        /\ Braces(template).holes = Len(fragments)
        /\ Braces(template).literals <= SourceBraces - Len(fragments)
        /\ pc = "done" =>
              Braces(template).literals >= SourceBraces - 2 * Len(fragments)

\* '{${a}}': a literal brace on either side of a hole
C15_Witness ==
    /\ pc = "done"
    /\ src = <<"{", "$", "{", "a", "}", "}">>
    /\ template = <<"{", "{", "{", "}", "}", "}">>
    /\ fragments = << <<"a">> >>

\* the digits that follow position i of the returned template
RECURSIVE DigitRun(_)
DigitRun(s) ==
    IF s # <<>> /\ Head(s) \in Digits THEN <<Head(s)>> \o DigitRun(Tail(s)) ELSE <<>>

NumberAfter(i) == DigitRun(SubSeq(template, i + 1, Len(template)))

Dollars == {i \in 1..Len(template) : template[i] = "$"}

\* the decimal digits of 1..Len(names)
Numbers == {to_string(n) : n \in 1..Len(names)}

\* C16: when a scan finishes without a diagnostic, every '$' of the returned
\* template starts a marker '$N' with 1 <= N <= Len(names), and every N of
\* 1..Len(names) is the number of at least one marker.
C16_MarkersMatchNames ==
    (pc = "done" /\ errors = <<>>) =>
        /\ \A i \in Dollars : NumberAfter(i) \in Numbers
        /\ \A n \in Numbers : \E i \in Dollars : NumberAfter(i) = n

(***************************************************************************)
(* Termination of the scan.                                                *)
(***************************************************************************)
\* C17: rewrite_query terminates on every template: an iteration of its loop
\* either ends the scan (no '$' is left, or an early return) or leaves an
\* unscanned suffix shorter than before by at least the text before the '$'
\* and the '$' itself, also in the branches that push a diagnostic and
\* continue; so the scan ends.
C17_Terminates ==
    /\ [][/\ AtMarker =>
               \/ pc' = "abort"
               \/ pc' = "scan" /\ Len(inp') <= Len(inp) - Len(Prefix) - 1
          /\ (pc = "scan" /\ ~AtMarker) => pc' = "done"
          /\ pc # "scan" => pc' = pc]_vars
    /\ <>(pc # "scan")

\* the scan of '$[..]$[a,]c' is over after two iterations that each pushed a
\* diagnostic and continued
C17_Witness ==
    /\ pc = "done"
    /\ src = <<"$", "[", ".", ".", "]", "$", "[", "a", ",", "]", "c">>
    /\ Len(errors) = 3
    /\ inp = <<>>

====
